---------------------------- MODULE Spec2Model ----------------------------
(***************************************************************************)
(* A model of pgkit's pagination helper (src/page.go): Sort, Page and      *)
(* Paginator.                                                              *)
(*                                                                         *)
(* Go's uint32 and uint64 values are kept at their true width.  A number   *)
(* is a little-endian sequence of 16-bit limbs: a uint32 has 2 limbs, a    *)
(* uint64 has 4.  A Go string is a sequence of one-character strings.      *)
(* A *Page is a record whose field nil says whether the pointer is nil.    *)
(***************************************************************************)
EXTENDS Integers, Sequences, FiniteSets, TLC

VARIABLES
    paginator,  \* the Paginator value (PaginatorOption) built by NewPaginator
    pages,      \* pages[c]: the *Page caller c owns (Nil or a Page record)
    call        \* the last call made: its operation, arguments and results

vars == <<paginator, pages, call>>

----------------------------------------------------------------------------
(* Bounds of the model *)

\* the row sequences handed to PrepareResult have 0..MaxRows rows
MaxRows == 7
\* the strings handed to NewSort have at most MaxLen characters
MaxLen == 3
\* the Column strings handed to GetOrder have at most MaxCol characters
MaxCol == 3
\* the accessors are tried on the sizes and page numbers 0..MaxSmall, beside
\* the boundary values
MaxSmall == 3
\* the requests handed to the paginator ask for the sizes 0..MaxReqSize and
\* the page numbers 0..MaxReqPage, beside the boundary values
MaxReqSize == 2
MaxReqPage == 2

----------------------------------------------------------------------------
(* Fixed-width unsigned arithmetic *)

Base == 2^16

\* the uint32 of a small natural number n (n < 2^31)
U32(n) == <<n % Base, n \div Base>>

\* the largest uint32, 2^32 - 1
MaxU32 == <<Base - 1, Base - 1>>

\* uint64(x) for a uint32 x
Widen(x) == x \o <<0, 0>>

\* uint32(x) for a uint64 x: the low 32 bits
Trunc32(x) == SubSeq(x, 1, 2)

\* int(x) for a number known to be below 2^31
ToInt(x) == x[1] + Base * x[2]

IsZero(x) == \A i \in 1..Len(x) : x[i] = 0

RECURSIVE GtFrom(_, _, _)
GtFrom(x, y, i) ==
    IF i = 0 THEN FALSE
    ELSE IF x[i] # y[i] THEN x[i] > y[i]
    ELSE GtFrom(x, y, i - 1)

\* x > y for two numbers of the same width
Gt(x, y) == GtFrom(x, y, Len(x))

RECURSIVE DecFrom(_, _)
DecFrom(x, i) ==
    IF i > Len(x) THEN <<>>
    ELSE IF x[i] > 0 THEN <<x[i] - 1>> \o SubSeq(x, i + 1, Len(x))
    ELSE <<Base - 1>> \o DecFrom(x, i + 1)

\* x - 1 at the width of x (wraps at 0)
Dec(x) == DecFrom(x, 1)

RECURSIVE IncFrom(_, _)
IncFrom(x, i) ==
    IF i > Len(x) THEN <<>>
    ELSE IF x[i] < Base - 1 THEN <<x[i] + 1>> \o SubSeq(x, i + 1, Len(x))
    ELSE <<0>> \o IncFrom(x, i + 1)

\* 1 + x at the width of x (wraps at the top)
Inc(x) == IncFrom(x, 1)

RECURSIVE MulFrom(_, _, _, _)
MulFrom(x, k, i, carry) ==
    IF i > Len(x) THEN <<carry>>
    ELSE LET t == x[i] * k + carry
         IN  <<t % Base>> \o MulFrom(x, k, i + 1, t \div Base)

\* x * k as a natural number, one limb wider than x (k < 2^15)
MulExact(x, k) == MulFrom(x, k, 1, 0)

\* x * k at the width of x: the product's low limbs
MulWrap(x, k) == SubSeq(MulExact(x, k), 1, Len(x))

RECURSIVE DivFrom(_, _, _, _)
DivFrom(x, k, i, r) ==
    IF i = 0 THEN <<>>
    ELSE LET t == r * Base + x[i]
         IN  DivFrom(x, k, i - 1, t % k) \o <<t \div k>>

\* x / k, integer division, at the width of x (0 < k < 2^15)
Div(x, k) == DivFrom(x, k, Len(x), 0)

RECURSIVE ModFrom(_, _, _, _)
ModFrom(x, k, i, r) ==
    IF i = 0 THEN r ELSE ModFrom(x, k, i - 1, (r * Base + x[i]) % k)

\* x % k (0 < k < 2^15)
Mod(x, k) == ModFrom(x, k, Len(x), 0)

----------------------------------------------------------------------------
(* Constants of the package *)

DefaultPageSize == 10
MaxPageSize == 50

----------------------------------------------------------------------------
(* Strings and characters *)

LowerLetters ==
    <<"a", "b", "c", "d", "e", "f", "g", "h", "i", "j", "k", "l", "m",
      "n", "o", "p", "q", "r", "s", "t", "u", "v", "w", "x", "y", "z">>

UpperLetters ==
    <<"A", "B", "C", "D", "E", "F", "G", "H", "I", "J", "K", "L", "M",
      "N", "O", "P", "Q", "R", "S", "T", "U", "V", "W", "X", "Y", "Z">>

Digits == {"0", "1", "2", "3", "4", "5", "6", "7", "8", "9"}

Range(f) == {f[i] : i \in DOMAIN f}

\* the character class [a-zA-Z0-9]
IsAlnum(ch) == ch \in Range(LowerLetters) \cup Range(UpperLetters) \cup Digits

\* strings.HasPrefix(s, "-")
HasDashPrefix(s) == Len(s) >= 1 /\ s[1] = "-"

\* strings.ToLower on ASCII text
ToLower(s) ==
    [i \in 1..Len(s) |->
        IF s[i] \in Range(UpperLetters)
        THEN LowerLetters[CHOOSE k \in 1..26 : UpperLetters[k] = s[i]]
        ELSE s[i]]

\* the index of the first sep in s at or after i, or 0
RECURSIVE IndexFrom(_, _, _)
IndexFrom(s, sep, i) ==
    IF i > Len(s) THEN 0
    ELSE IF s[i] = sep THEN i
    ELSE IndexFrom(s, sep, i + 1)

\* strings.Split(s, sep) for a one-character sep
RECURSIVE Split(_, _)
Split(s, sep) ==
    LET i == IndexFrom(s, sep, 1)
    IN  IF i = 0 THEN <<s>>
        ELSE <<SubSeq(s, 1, i - 1)>> \o Split(SubSeq(s, i + 1, Len(s)), sep)

----------------------------------------------------------------------------
(* Sort *)

Desc == <<"D", "E", "S", "C">>
Asc == <<"A", "S", "C">>

\* Sort{}, the zero value
ZeroSort == [Column |-> <<>>, Order |-> <<>>]

\* (s Sort) String() string
String(s) ==
    IF s.Column = <<>> THEN <<>>
    ELSE s.Column \o <<" ">> \o (IF s.Order = <<>> THEN Asc ELSE s.Order)

\* the pattern -?([a-zA-Z0-9]+) matches s starting at position i
MatchAt(s, i) ==
    \/ IsAlnum(s[i])
    \/ s[i] = "-" /\ i + 1 <= Len(s) /\ IsAlnum(s[i + 1])

\* the variant of the pattern anchored at both ends: ^-?([a-zA-Z0-9]+)$
MatchWhole(s) ==
    LET from == IF HasDashPrefix(s) THEN 2 ELSE 1
    IN  from <= Len(s) /\ \A i \in from..Len(s) : IsAlnum(s[i])

\* _MatcherOrderBy.MatchString(s): the pattern matches somewhere in s
MatchString(s) == \E i \in 1..Len(s) : MatchAt(s, i)

\* NewSort(s string) (Sort, bool)
NewSort(s) ==
    IF s = <<>> \/ ~MatchString(s) THEN [sort |-> ZeroSort, ok |-> FALSE]
    ELSE IF HasDashPrefix(s)
         THEN [sort |-> [Column |-> Tail(s), Order |-> Desc], ok |-> TRUE]
         ELSE [sort |-> [Column |-> s, Order |-> Asc], ok |-> TRUE]

----------------------------------------------------------------------------
(* Page *)

Nil == [nil |-> TRUE]

MkPage(size, page, more, column, order) ==
    [nil |-> FALSE, Size |-> size, Page |-> page, More |-> more,
     Column |-> column, Order |-> order]

\* NewPage(size, page, sort...)
NewPage(size, page, sort) ==
    MkPage(IF IsZero(size) THEN U32(DefaultPageSize) ELSE size,
           IF IsZero(page) THEN U32(1) ELSE page,
           FALSE, <<>>, sort)

\* (p *Page) Limit() uint64
Limit(p) ==
    LET n0 == Widen(U32(DefaultPageSize))
        n1 == IF ~p.nil /\ ~IsZero(p.Size) THEN Widen(p.Size) ELSE n0
    IN  IF Gt(n1, Widen(U32(MaxPageSize))) THEN Widen(U32(MaxPageSize))
        ELSE n1

\* the Offset of the variant that multiplies in 32 bits, uint32(n-1) *
\* uint32(limit), before widening
Offset32(p) ==
    LET n1 == IF ~p.nil /\ ~IsZero(p.Page) THEN p.Page ELSE U32(1)
    IN  Widen(MulWrap(Dec(n1), ToInt(Limit(p))))

\* (p *Page) Offset() uint64
Offset(p) ==
    LET n0 == Widen(U32(1))
        n1 == IF ~p.nil /\ ~IsZero(p.Page) THEN Widen(p.Page) ELSE n0
        n2 == IF Gt(Widen(U32(1)), n1) THEN Widen(U32(1)) ELSE n1
    IN  MulWrap(Dec(n2), ToInt(Limit(p)))

\* the loop "for _, s := range list { if s, ok := NewSort(s); ok { append } }"
RECURSIVE ParseFrom(_, _, _)
ParseFrom(list, i, sort) ==
    IF i > Len(list) THEN sort
    ELSE LET r == NewSort(list[i])
         IN  ParseFrom(list, i + 1, IF r.ok THEN Append(sort, r.sort) ELSE sort)

ParseAll(list) == ParseFrom(list, 1, <<>>)

\* the GetOrder of the variant that falls back to the default sort when no
\* part of Column parses
GetOrderFallback(p, defaultSort) ==
    IF ~p.nil /\ Len(p.Order) # 0 THEN p.Order
    ELSE IF p.nil \/ p.Column = <<>> THEN ParseAll(defaultSort)
    ELSE IF ParseAll(Split(p.Column, ",")) = <<>> THEN ParseAll(defaultSort)
    ELSE ParseAll(Split(p.Column, ","))

\* (p *Page) GetOrder(defaultSort ...string) []Sort
GetOrder(p, defaultSort) ==
    IF ~p.nil /\ Len(p.Order) # 0 THEN p.Order
    ELSE IF p.nil \/ p.Column = <<>> THEN ParseAll(defaultSort)
    ELSE ParseAll(Split(p.Column, ","))

----------------------------------------------------------------------------
(* Paginator *)

\* WithDefaultSize, WithMaxSize, WithSort, WithColumnFunc: an option is a
\* record naming the field it sets and the value
WithDefaultSize(size) == [field |-> "defaultSize", value |-> size]
WithMaxSize(size) == [field |-> "maxSize", value |-> size]
WithSort(sort) == [field |-> "defaultSort", value |-> sort]
WithColumnFunc(f) == [field |-> "columnFunc", value |-> f]

\* fn(&o) for an option fn
ApplyOption(o, fn) == [o EXCEPT ![fn.field] = fn.value]

RECURSIVE ApplyOptions(_, _, _)
ApplyOptions(o, options, i) ==
    IF i > Len(options) THEN o
    ELSE ApplyOptions(ApplyOption(o, options[i]), options, i + 1)

\* NewPaginator(options...)
NewPaginator(options) ==
    ApplyOptions([defaultSize |-> U32(DefaultPageSize),
                  maxSize |-> U32(MaxPageSize),
                  defaultSort |-> <<>>,
                  columnFunc |-> "nil"], options, 1)

\* p.columnFunc(column), for the column functions tried
ColumnFunc(f, column) ==
    IF f = "ToLower" THEN ToLower(column)
    ELSE column

\* the getOrder of the variant that ranges over the sorts by reference and
\* so writes the transformed column back into the page's Order
GetOrderInPlace(pg, page) ==
    LET sort == GetOrder(page, pg.defaultSort)
        done == [i \in 1..Len(sort) |->
                    IF pg.columnFunc # "nil"
                    THEN [sort[i] EXCEPT !.Column = ColumnFunc(pg.columnFunc, @)]
                    ELSE sort[i]]
    IN  [list |-> [i \in 1..Len(sort) |-> String(done[i])],
         page |-> IF ~page.nil /\ Len(page.Order) # 0
                  THEN [page EXCEPT !.Order = done]
                  ELSE page]

\* (p Paginator[T]) getOrder(page *Page) []string, with the page as the call
\* leaves it
getOrder(pg, page) ==
    LET sort == GetOrder(page, pg.defaultSort)
    IN  [list |-> [i \in 1..Len(sort) |->
                      LET s == IF pg.columnFunc # "nil"
                               THEN [sort[i] EXCEPT
                                       !.Column = ColumnFunc(pg.columnFunc, @)]
                               ELSE sort[i]
                      IN  String(s)],
         page |-> page]

\* the query handed to PrepareQuery: sq.Select("*").From("t"), which has no
\* limit, no offset and no order-by yet (<<>> is "not set")
NoQuery == [limit |-> <<>>, offset |-> <<>>, orderBy |-> <<>>]

\* the size adjustment at the head of PrepareQuery
AdjustSize(pg, page) ==
    IF page.nil THEN page
    ELSE LET p1 == IF IsZero(page.Size)
                   THEN [page EXCEPT !.Size = pg.defaultSize]
                   ELSE page
         IN  IF Gt(p1.Size, pg.maxSize)
             THEN [p1 EXCEPT !.Size = pg.maxSize]
             ELSE p1

\* the row limit of the variant that asks for no sentinel row
QueryLimitExact(page) == Limit(page)

\* the row limit PrepareQuery sets: page.Limit() + 1
QueryLimit(page) == Inc(Limit(page))

\* a PrepareQuery with a pointer receiver that remembers the adjusted size
\* as the next default
PrepareQueryRemember(pg, q, page) ==
    LET p1 == AdjustSize(pg, page)
        limit == Limit(p1)
        order == getOrder(pg, p1)
    IN  [paginator |-> IF p1.nil THEN pg
                       ELSE [pg EXCEPT !.defaultSize = p1.Size],
         page |-> order.page,
         result |-> [len |-> 0, cap |-> ToInt(Inc(limit))],
         query |-> [limit |-> QueryLimit(p1),
                    offset |-> Offset(p1),
                    orderBy |-> q.orderBy \o order.list]]

\* (p Paginator[T]) PrepareQuery(q, page) ([]T, sq.SelectBuilder): the
\* result container, the query, and the paginator and the page as the call
\* leaves them
PrepareQuery(pg, q, page) ==
    LET p1 == AdjustSize(pg, page)
        limit == Limit(p1)
        order == getOrder(pg, p1)
    IN  [paginator |-> pg,
         page |-> order.page,
         result |-> [len |-> 0, cap |-> ToInt(Inc(limit))],
         query |-> [limit |-> QueryLimit(p1),
                    offset |-> Offset(p1),
                    orderBy |-> q.orderBy \o order.list]]

\* the comparison of the variant that takes a full page for a page with more
HasMoreFull(result, limit) == Len(result) >= limit

\* len(result) > limit
HasMore(result, limit) == Len(result) > limit

\* the page number of the variant that counts pages from 0
PageNumberFromZero(page, limit) ==
    Div(Trunc32(Offset(page)), ToInt(U32(limit)))

\* 1 + uint32(page.Offset())/uint32(limit)
PageNumber(page, limit) ==
    Inc(Div(Trunc32(Offset(page)), ToInt(U32(limit))))

\* (p Paginator[T]) PrepareResult(result, page) []T: the rows returned, and
\* the paginator and the page as the call leaves them.  A nil page is
\* dereferenced at "page.More =": the call panics.
PrepareResult(pg, result, page) ==
    IF page.nil
    THEN [panic |-> TRUE, paginator |-> pg, page |-> page, result |-> <<>>]
    ELSE LET limit == ToInt(Limit(page))
             more == HasMore(result, limit)
             p1 == [page EXCEPT !.More = more]
             p2 == [p1 EXCEPT !.Size = U32(limit)]
             p3 == [p2 EXCEPT !.Page = PageNumber(p2, limit)]
         IN  [panic |-> FALSE, paginator |-> pg, page |-> p3,
              result |-> IF more THEN SubSeq(result, 1, limit) ELSE result]

----------------------------------------------------------------------------
(* The values tried *)

\* uint32 values: the small ones, and those around each boundary in the code
SizeVals ==
    {U32(n) : n \in 0..MaxSmall}
      \cup {U32(DefaultPageSize), U32(MaxPageSize - 1), U32(MaxPageSize),
            U32(MaxPageSize + 1), U32(Base - 1), U32(Base), U32(2^30),
            <<0, 2^15>>, MaxU32}

PageVals ==
    {U32(n) : n \in 0..MaxSmall}
      \cup {U32(Base), U32(Base + 1), <<0, 2^15>>, <<1, 2^15>>,
            Dec(MaxU32), MaxU32}

\* the pages whose accessors are called: nil, and every Size and Page value
AccessorPages ==
    {Nil} \cup {MkPage(s, n, FALSE, <<>>, <<>>) : s \in SizeVals, n \in PageVals}

----------------------------------------------------------------------------
(* The pure-function specifications: the paginator and the callers' pages
   stay as they are, and each behaviour makes one call *)

DefaultPaginator == NewPaginator(<<>>)

Callers == {"c1", "c2"}

InitIdle ==
    /\ paginator = DefaultPaginator
    /\ pages = [c \in Callers |-> Nil]
    /\ call = [op |-> "none"]

----------------------------------------------------------------------------
(* SpecPage: the accessors Limit and Offset, called on every page *)

CallLimit(p) ==
    /\ call.op = "none"
    /\ call' = [op |-> "Limit", p |-> p, ret |-> Limit(p)]
    /\ UNCHANGED <<paginator, pages>>

CallOffset(p) ==
    /\ call.op = "none"
    /\ call' = [op |-> "Offset", p |-> p, ret |-> Offset(p)]
    /\ UNCHANGED <<paginator, pages>>

NextPage ==
    \/ \E p \in AccessorPages : CallLimit(p)
    \/ \E p \in AccessorPages : CallOffset(p)

SpecPage == InitIdle /\ [][NextPage]_vars

\* the Size and Page a page requests; a nil page requests 0 and 0
SizeOf(p) == IF p.nil THEN U32(0) ELSE p.Size
PageOf(p) == IF p.nil THEN U32(0) ELSE p.Page

\* the limit the claim states for a requested size, as an integer
StatedLimit(s) ==
    IF IsZero(s) THEN 10
    ELSE IF s[2] = 0 /\ s[1] <= 50 THEN s[1]
    ELSE 50

\* max(Page, 1) - 1 as a uint32
StatedPageIndex(n) == IF IsZero(n) THEN U32(0) ELSE Dec(n)

\* C4: Limit() is in [1, 50] (Size when 1 <= Size <= 50, 10 when Size = 0,
\* 50 when Size > 50), and Offset() is exactly (max(Page, 1) - 1) * Limit():
\* Offset() is a multiple of the limit and Offset() / limit, with nothing
\* lost to wrap-around, is max(Page, 1) - 1.  A nil page counts as Size = 0
\* and Page = 0.
C4_LimitOffset ==
    /\ call.op = "Limit" =>
          /\ call.ret = Widen(U32(StatedLimit(SizeOf(call.p))))
          /\ ToInt(call.ret) \in 1..50
    /\ call.op = "Offset" =>
          LET L == StatedLimit(SizeOf(call.p))
          IN  /\ Mod(call.ret, L) = 0
              /\ Div(call.ret, L) = Widen(StatedPageIndex(PageOf(call.p)))
              /\ MulExact(Widen(StatedPageIndex(PageOf(call.p))), L)
                    = call.ret \o <<0>>

\* C4 witness: Offset() was called on the last page of the largest size, whose
\* offset needs more than 32 bits, and Limit() on a nil page
C4_Witness ==
    /\ call.op = "Offset"
    /\ ~call.p.nil
    /\ call.p.Page = MaxU32
    /\ call.p.Size = MaxU32
    /\ ~IsZero(SubSeq(call.ret, 3, 4))

----------------------------------------------------------------------------
(* SpecSort: NewSort, called on every string of at most MaxLen characters *)

\* a lower-case letter, an upper-case letter, a digit, the dash, the comma
\* and a character of no class
SortAlphabet == {"a", "Z", "0", "-", ",", "_"}

RECURSIVE StringsOver(_, _)
StringsOver(alphabet, n) ==
    IF n = 0 THEN {<<>>}
    ELSE LET shorter == StringsOver(alphabet, n - 1)
         IN  shorter \cup {Append(s, ch) : s \in shorter, ch \in alphabet}

CallNewSort(s) ==
    /\ call.op = "none"
    /\ call' = [op |-> "NewSort", s |-> s, ret |-> NewSort(s)]
    /\ UNCHANGED <<paginator, pages>>

NextSort == \E s \in StringsOver(SortAlphabet, MaxLen) : CallNewSort(s)

SpecSort == InitIdle /\ [][NextSort]_vars

\* C6: NewSort(s) succeeds exactly when s holds at least one character of
\* [A-Za-z0-9]; on success a leading '-' gives Column = s without its first
\* character and Order = DESC, anything else Column = s and Order = ASC; on
\* failure the Sort returned is the zero value.
C6_NewSort ==
    call.op = "NewSort" =>
        LET s == call.s
            has == \E i \in 1..Len(s) : IsAlnum(s[i])
        IN  /\ call.ret.ok = has
            /\ has /\ Len(s) > 0 /\ s[1] = "-" =>
                  /\ call.ret.sort.Column = SubSeq(s, 2, Len(s))
                  /\ call.ret.sort.Order = <<"D", "E", "S", "C">>
            /\ has /\ ~(Len(s) > 0 /\ s[1] = "-") =>
                  /\ call.ret.sort.Column = s
                  /\ call.ret.sort.Order = <<"A", "S", "C">>
            /\ ~has =>
                  /\ call.ret.sort.Column = <<>>
                  /\ call.ret.sort.Order = <<>>

\* C6 witness: NewSort succeeded on a string that starts with '-' and whose
\* alphanumeric character comes only after a character of no class
C6_Witness ==
    /\ call.op = "NewSort"
    /\ call.s = <<"-", "_", "a">>
    /\ call.ret.ok
    /\ call.ret.sort = [Column |-> <<"_", "a">>, Order |-> Desc]

----------------------------------------------------------------------------
(* SpecOrder: GetOrder, called on every page and default sort *)

ColumnAlphabet == {"a", "-", ",", "_"}

\* structured Order lists: none, one entry, two entries (one with no Order)
OrderLists ==
    {<<>>,
     <<[Column |-> <<"I", "D">>, Order |-> Desc]>>,
     <<[Column |-> <<"b">>, Order |-> <<>>], [Column |-> <<"a">>, Order |-> Asc]>>}

\* default sort specs: none, the test's "ID", some that do not parse
DefaultSorts ==
    {<<>>,
     <<<<"I", "D">>>>,
     <<<<"-", "b">>, <<>>, <<"-">>, <<"a">>>>,
     <<<<"_">>, <<>>>>}

OrderPages ==
    {Nil} \cup
    {MkPage(U32(0), U32(0), FALSE, col, ord) :
        col \in StringsOver(ColumnAlphabet, MaxCol), ord \in OrderLists}

CallGetOrder(p, defaultSort) ==
    /\ call.op = "none"
    /\ call' = [op |-> "GetOrder", p |-> p, defaultSort |-> defaultSort,
                ret |-> GetOrder(p, defaultSort)]
    /\ UNCHANGED <<paginator, pages>>

NextOrder ==
    \E p \in OrderPages, defaultSort \in DefaultSorts :
        CallGetOrder(p, defaultSort)

SpecOrder == InitIdle /\ [][NextOrder]_vars

\* the positions of the commas of s, and the part of s before the k-th comma
\* (the last part, k = number of commas + 1, runs to the end of s)
Commas(s) == {i \in 1..Len(s) : s[i] = ","}
CommaAt(s, k) ==
    IF k = 0 THEN 0
    ELSE IF k > Cardinality(Commas(s)) THEN Len(s) + 1
    ELSE CHOOSE i \in Commas(s) :
            Cardinality({j \in Commas(s) : j < i}) = k - 1
StatedParts(s) ==
    [k \in 1..(Cardinality(Commas(s)) + 1) |->
        SubSeq(s, CommaAt(s, k - 1) + 1, CommaAt(s, k) - 1)]

\* a spec parses when it holds a character of [A-Za-z0-9]; what it parses to
StatedOk(s) == \E i \in 1..Len(s) : IsAlnum(s[i])
StatedSort(s) ==
    IF Len(s) > 0 /\ s[1] = "-"
    THEN [Column |-> SubSeq(s, 2, Len(s)), Order |-> <<"D", "E", "S", "C">>]
    ELSE [Column |-> s, Order |-> <<"A", "S", "C">>]

\* the successfully parsed entries of a list of specs, in input order
StatedParsed(list) ==
    LET kept == SelectSeq(list, StatedOk)
    IN  [i \in 1..Len(kept) |-> StatedSort(kept[i])]

----------------------------------------------------------------------------
(* Spec: one paginator shared by the callers, each with a page of its own *)

\* the paginators tried: the default one, the test's (a column function, a
\* default size, a maximum size and a default sort), sizes of 0, the largest
\* sizes, and an option given twice
TestOptions ==
    <<WithColumnFunc("ToLower"), WithDefaultSize(U32(2)), WithMaxSize(U32(5)),
      WithSort(<<<<"I", "D">>>>)>>

OptionLists ==
    {<<>>,
     TestOptions,
     <<WithDefaultSize(U32(0)), WithMaxSize(U32(2))>>,
     <<WithMaxSize(U32(0))>>,
     <<WithDefaultSize(MaxU32), WithMaxSize(MaxU32)>>,
     <<WithMaxSize(U32(1)), WithSort(<<<<"-", "a">>>>), WithMaxSize(U32(MaxPageSize + 1))>>}

Paginators == {NewPaginator(options) : options \in OptionLists}

ReqSizes ==
    {U32(n) : n \in 0..MaxReqSize} \cup {U32(MaxPageSize + 1), MaxU32}

ReqPageNos ==
    {U32(n) : n \in 0..MaxReqPage} \cup {<<0, 2^15>>, MaxU32}

\* a Column and an Order list that a column function changes
ReqColumn == <<"-", "B", ",", "a">>
ReqOrder == <<[Column |-> <<"I", "D">>, Order |-> Desc]>>

\* the pages a caller hands over: nil, NewPage's, every size and page number
\* with no sort, and sorted ones
RequestPages ==
    {Nil, NewPage(U32(0), U32(0), <<>>), NewPage(U32(0), U32(0), ReqOrder)}
      \cup {MkPage(s, n, FALSE, <<>>, <<>>) : s \in ReqSizes, n \in ReqPageNos}
      \cup {MkPage(U32(0), U32(0), FALSE, ReqColumn, <<>>),
            MkPage(U32(1), U32(2), FALSE, ReqColumn, ReqOrder),
            MkPage(U32(0), U32(1), TRUE, <<>>, ReqOrder)}

\* the pages the other callers hand over meanwhile
OtherPages ==
    {Nil, NewPage(U32(0), U32(0), <<>>),
     MkPage(U32(1), U32(2), FALSE, ReqColumn, <<>>)}

\* the row sequence of n rows: row i is the i-th row the query returned
Rows(n) == [i \in 1..n |-> i]

\* one caller hands over any of RequestPages, the others are in OtherPages
Init ==
    /\ paginator \in Paginators
    /\ \E c \in Callers :
          pages \in {f \in [Callers -> RequestPages] :
                        \A d \in Callers \ {c} : f[d] \in OtherPages}
    /\ call = [op |-> "none"]

\* caller c calls paginator.PrepareQuery(q, page) with its page
DoPrepareQuery(c) ==
    LET r == PrepareQuery(paginator, NoQuery, pages[c])
    IN  /\ paginator' = r.paginator
        /\ pages' = [pages EXCEPT ![c] = r.page]
        /\ call' = [op |-> "PrepareQuery", c |-> c, pre |-> pages[c],
                    rows |-> <<>>, ret |-> r]

\* caller c calls paginator.PrepareResult(rows, page) with its page
DoPrepareResult(c, rows) ==
    LET r == PrepareResult(paginator, rows, pages[c])
    IN  /\ paginator' = r.paginator
        /\ pages' = [pages EXCEPT ![c] = r.page]
        /\ call' = [op |-> "PrepareResult", c |-> c, pre |-> pages[c],
                    rows |-> rows, ret |-> r]

Next ==
    \/ \E c \in Callers : DoPrepareQuery(c)
    \/ \E c \in Callers, n \in 0..MaxRows : DoPrepareResult(c, Rows(n))

Spec == Init /\ [][Next]_vars

----------------------------------------------------------------------------
(* The claims about PrepareQuery and PrepareResult, under Spec *)

\* the page the last call was made with, as the call left it
Post == pages[call.c]

\* C1: PrepareResult(rows, page) on a non-nil page, with limit the page's
\* limit at call time, sets page.More to true exactly when len(rows) > limit;
\* when More is true it returns the first limit rows in their order, when
\* More is false it returns rows unchanged; the length returned is
\* min(len(rows), limit).
C1_PrepareResultRows ==
    call.op = "PrepareResult" /\ ~call.pre.nil =>
        LET limit == StatedLimit(SizeOf(call.pre))
            rows == call.rows
            out == call.ret.result
        IN  /\ ~call.ret.panic
            /\ Post.More = (Len(rows) > limit)
            /\ Post.More =>
                  /\ Len(out) = limit
                  /\ \A i \in 1..limit : out[i] = rows[i]
            /\ ~Post.More => out = rows
            /\ Len(out) = IF Len(rows) < limit THEN Len(rows) ELSE limit

\* C1 witness: the test's last call, 7 rows for a page of size 5; 5 rows
\* come back and More is set
C1_Witness ==
    /\ call.op = "PrepareResult"
    /\ paginator = NewPaginator(TestOptions)
    /\ call.pre = MkPage(U32(5), U32(1), FALSE, <<>>, <<>>)
    /\ call.rows = Rows(7)
    /\ call.ret.result = Rows(5)
    /\ Post.More

\* C2: PrepareQuery sets the query's row limit to L + 1 and its offset to
\* page.Offset(), L = page.Limit(), both taken after the page's Size was
\* adjusted, and returns an empty result container of capacity L + 1, for a
\* nil page as for a non-nil one.
C2_PrepareQueryLimit ==
    call.op = "PrepareQuery" =>
        /\ call.ret.query.limit = Inc(Limit(Post))
        /\ call.ret.query.offset = Offset(Post)
        /\ call.ret.result.len = 0
        /\ call.ret.result.cap = ToInt(Limit(Post)) + 1

\* C2 witness: the test's call, NewPage(0, 0) under defaultSize 2 and
\* maxSize 5: the limit is 6, the offset 0, the capacity 6
C2_Witness ==
    /\ call.op = "PrepareQuery"
    /\ paginator = NewPaginator(TestOptions)
    /\ call.pre = NewPage(U32(0), U32(0), <<>>)
    /\ Post.Size = U32(5)
    /\ call.ret.query.limit = Widen(U32(6))
    /\ call.ret.query.offset = Widen(U32(0))
    /\ call.ret.result = [len |-> 0, cap |-> 6]

\* x <= y for two uint32
Le32(x, y) == x[2] < y[2] \/ (x[2] = y[2] /\ x[1] <= y[1])

\* C3, as claimed: after PrepareQuery on a non-nil page the effective page
\* size page.Limit() is at most the paginator's maxSize, whatever defaultSize
\* and maxSize are (0 included).
C3_MaxSizeCeiling ==
    call.op = "PrepareQuery" /\ ~call.pre.nil =>
        /\ Le32(Trunc32(Limit(Post)), paginator.maxSize)
        /\ Le32(Trunc32(Dec(call.ret.query.limit)), paginator.maxSize)

\* C7: no call changes the paginator, and a call made with one caller's page
\* leaves every other caller's page as it was.
C7_PaginatorImmutable ==
    [][/\ paginator' = paginator
       /\ \A c \in Callers : call'.c # c => pages'[c] = pages[c]]_vars

\* C7 witness: both callers have been served by the test's paginator, c1's
\* page by PrepareResult before c2's
C7_Witness ==
    /\ paginator = NewPaginator(TestOptions)
    /\ call.op = "PrepareResult"
    /\ call.c = "c2"
    /\ ~call.pre.nil
    /\ ~pages["c1"].nil
    /\ pages["c1"].More
    /\ pages["c1"].Size = U32(5)
    /\ pages["c1"].Order = <<>>

\* C8, as claimed: after PrepareResult on a non-nil page, Size is the limit L
\* and Page is 1 + floor(O / L), L and O the page's limit and full offset
\* before the call; that is, Page is max(original Page, 1).
C8_PageNumber ==
    call.op = "PrepareResult" /\ ~call.pre.nil =>
        LET L == StatedLimit(SizeOf(call.pre))
        IN  /\ Post.Size = U32(L)
            /\ Widen(Post.Page) = Inc(Div(Offset(call.pre), L))
            /\ Post.Page = IF IsZero(call.pre.Page) THEN U32(1) ELSE call.pre.Page

\* C9: a PrepareResult call that follows a PrepareResult call on the same
\* non-nil page leaves the page's Size and Page unchanged, and sets More by
\* its own rows alone: len(rows) > Size.
C9_PrepareResultIdempotent ==
    [][(/\ call.op = "PrepareResult"
        /\ call'.op = "PrepareResult"
        /\ call'.c = call.c
        /\ ~call'.pre.nil)
       => /\ pages'[call.c].Size = pages[call.c].Size
          /\ pages'[call.c].Page = pages[call.c].Page
          /\ pages'[call.c].More
                = (Len(call'.rows) > ToInt(pages[call.c].Size))]_vars

\* C9 witness: a second PrepareResult, with no rows, on a page whose first
\* PrepareResult had set More and had cut its page number to 32 bits
C9_Witness ==
    /\ call.op = "PrepareResult"
    /\ call.rows = <<>>
    /\ ~call.pre.nil
    /\ call.pre.More
    /\ call.pre.Order = <<>>
    /\ call.pre.Size = U32(2)
    /\ call.pre.Page = <<Base - 1, 2^15 - 1>>
    /\ ~Post.More
    /\ Post.Page = call.pre.Page

\* the size the claim states PrepareQuery leaves: defaultSize if the size is
\* 0, then clamped to maxSize
StatedSize(size, pg) ==
    LET s1 == IF size = U32(0) THEN pg.defaultSize ELSE size
    IN  IF Le32(s1, pg.maxSize) THEN s1 ELSE pg.maxSize

\* C10: PrepareQuery changes at most the Size of its page: Page, More, Column
\* and Order (the Column of each Sort included) are as before, and Size is
\* defaultSize-if-zero then clamped to maxSize; with a nil page the call
\* completes, with limit 10 + 1 and offset 0.
C10_PrepareQueryFrame ==
    call.op = "PrepareQuery" =>
        IF call.pre.nil
        THEN /\ Post.nil
             /\ call.ret.query.limit = Widen(U32(11))
             /\ call.ret.query.offset = Widen(U32(0))
        ELSE /\ ~Post.nil
             /\ Post.Page = call.pre.Page
             /\ Post.More = call.pre.More
             /\ Post.Column = call.pre.Column
             /\ Post.Order = call.pre.Order
             /\ Post.Size = StatedSize(call.pre.Size, paginator)

\* C10 witness: a paginator with a column function was given a page with an
\* Order list; the order-by is lower-cased and the page's list is not
C10_Witness ==
    /\ call.op = "PrepareQuery"
    /\ paginator.columnFunc = "ToLower"
    /\ ~call.pre.nil
    /\ call.pre.Order = ReqOrder
    /\ call.ret.query.orderBy = <<<<"i", "d", " ", "D", "E", "S", "C">>>>
    /\ Post.Order = ReqOrder
    /\ Post.Size # call.pre.Size

=============================================================================
